---- MODULE Spec2Model ----
(***************************************************************************)
(* On-completion actions of obsidian-tasks (src/src/Task/OnCompletion.ts). *)
(*                                                                         *)
(* A JavaScript string is modelled as a sequence of characters, each       *)
(* character a one-character TLA+ string.  The flag emoji U+1F3C1 that     *)
(* introduces an on-completion trigger is the single atom FLAG.            *)
(*                                                                         *)
(* Three specifications share the variables:                               *)
(*   Spec     one call of handleOnCompletion on drawn arguments,           *)
(*   SpecWL   one call of writeLineToListEnd on drawn arguments,           *)
(*   SpecAdj  one call of adjustLineForArchival on a drawn line,           *)
(*   SpecGF   sequences of calls of GlobalFilter's static methods,         *)
(*   SpecFS   handleOnCompletion with updateFileContentEventually as its   *)
(*            fileWriter, against a vault whose promises settle later.     *)
(***************************************************************************)
EXTENDS Integers, Sequences, FiniteSets, TLC

VARIABLES
    pc,                 \* position of the modelled call: "start", then how it ended
    task,               \* handleOnCompletion: the original task
    tasks,              \* handleOnCompletion: the successor list
    toLogFilePath,      \* handleOnCompletion: the log-file path argument
    returned,           \* handleOnCompletion: the returned list
    fileWriterCalls,    \* handleOnCompletion: the calls made to fileWriter, in order
    initialFileContent, \* writeLineToListEnd: first argument
    targetListHeading,  \* writeLineToListEnd: second argument
    textToAppend,       \* writeLineToListEnd: third argument
    newFileContent,     \* writeLineToListEnd: the returned text
    lineOfText,         \* adjustLineForArchival: the argument
    adjustedLine,       \* adjustLineForArchival: the returned line
    instance,           \* GlobalFilter.instance
    callHistory,        \* GlobalFilter: the state-changing calls made so far
    vault,              \* app.vault: what each path resolves to
    jobs,               \* updateFileContent: the calls made and where each stands
    console             \* console.log: the paths reported

vars == << pc, task, tasks, toLogFilePath, returned, fileWriterCalls,
           initialFileContent, targetListHeading, textToAppend, newFileContent,
           lineOfText, adjustedLine,
           instance, callHistory, vault, jobs, console >>

\* The variables of handleOnCompletion, writeLineToListEnd and
\* adjustLineForArchival called on drawn arguments.
callVars == << pc, task, tasks, toLogFilePath, returned, fileWriterCalls,
               initialFileContent, targetListHeading, textToAppend,
               newFileContent, lineOfText, adjustedLine >>

gfVars == << instance, callHistory >>

fsVars == << vault, jobs, console >>

\* The value of a variable the running specification does not use.
None == "none"

(***************************************************************************)
(* Strings                                                                 *)
(***************************************************************************)

FLAG == "FLAG"
NEWLINE == "\n"

\* The characters String.prototype.trimStart removes that occur in the model.
WhiteSpace == {" ", "\t", NEWLINE}

\* s.includes(sub)
includes(s, sub) ==
    \E i \in 0..(Len(s) - Len(sub)) : SubSeq(s, i + 1, i + Len(sub)) = sub

\* s.substring(0, n)
substring0(s, n) == SubSeq(s, 1, IF n < Len(s) THEN n ELSE Len(s))

\* s.substring(n)
substringFrom(s, n) == SubSeq(s, n + 1, Len(s))

\* s.startsWith(prefix)
startsWith(s, prefix) ==
    Len(prefix) <= Len(s) /\ SubSeq(s, 1, Len(prefix)) = prefix

\* s.endsWith(suffix)
endsWith(s, suffix) ==
    Len(suffix) <= Len(s) /\ SubSeq(s, Len(s) - Len(suffix) + 1, Len(s)) = suffix

RECURSIVE trimStart(_)
trimStart(s) ==
    IF s # <<>> /\ s[1] \in WhiteSpace THEN trimStart(Tail(s)) ELSE s

(***************************************************************************)
(* LineNormalizer                                                          *)
(***************************************************************************)

RECURSIVE removeCalloutPrefixes(_)
removeCalloutPrefixes(line) ==
    IF substring0(line, 2) = <<">", " ">>
    THEN removeCalloutPrefixes(substringFrom(line, 2))
    ELSE line

adjustLineForArchival(changedStatusTaskLine) ==
    removeCalloutPrefixes(trimStart(changedStatusTaskLine))

(***************************************************************************)
(* Tasks                                                                   *)
(*                                                                         *)
(* A Task is an object: ref is its identity (what === compares), the other *)
(* fields are the properties handleOnCompletion reads.                     *)
(***************************************************************************)

DONE == "DONE"

Status(type, symbol) == [type |-> type, symbol |-> symbol]

MakeTask(ref, status, description, path, indentation) ==
    [ref |-> ref, status |-> status, description |-> description,
     path |-> path, indentation |-> indentation]

\* task.toFileLineString(): the task as a line of its file.
toFileLineString(t) ==
    t.indentation \o <<"-", " ", "[", t.status.symbol, "]", " ">> \o t.description

(***************************************************************************)
(* FileMutator transforms                                                  *)
(*                                                                         *)
(* A fileContentUpdater closure is the record of the function it calls and *)
(* of the values it captured; ApplyUpdater runs it on a file content.      *)
(***************************************************************************)

endsWithNewline(data) == data # <<>> /\ data[Len(data)] = NEWLINE

\* appendToEndOfFile(data, text) of lib/FileWriter.
appendToEndOfFile(data, text) ==
    (IF data = <<>> \/ endsWithNewline(data) THEN data ELSE data \o <<NEWLINE>>)
        \o text \o <<NEWLINE>>

(***************************************************************************)
(* ListEndLocator                                                          *)
(***************************************************************************)

\* What "." of a regular expression does not match.
LineTerminators == {NEWLINE, "\r"}

\* initialFileContent.split('\n')
RECURSIVE split(_)
split(s) ==
    IF \A i \in 1..Len(s) : s[i] # NEWLINE
    THEN << s >>
    ELSE LET i == CHOOSE j \in 1..Len(s) :
                      s[j] = NEWLINE /\ \A k \in 1..(j - 1) : s[k] # NEWLINE
         IN  << SubSeq(s, 1, i - 1) >> \o split(substringFrom(s, i))

\* linesArray.join(NEWLINE)
RECURSIVE join(_)
join(linesArray) ==
    IF linesArray = <<>> THEN <<>>
    ELSE IF Len(linesArray) = 1 THEN linesArray[1]
    ELSE linesArray[1] \o <<NEWLINE>> \o join(Tail(linesArray))

\* linesArray.indexOf(line): the 0-based index of the first element equal to
\* line, -1 when there is none.
indexOf(linesArray, line) ==
    IF \E i \in 1..Len(linesArray) : linesArray[i] = line
    THEN (CHOOSE i \in 1..Len(linesArray) :
              linesArray[i] = line /\ \A k \in 1..(i - 1) : linesArray[k] # line) - 1
    ELSE -1

\* The rest of the line after the longest run of leading c characters.
RECURSIVE skipChars(_, _)
skipChars(line, c) ==
    IF line # <<>> /\ line[1] = c THEN skipChars(Tail(line), c) ELSE line

\* The rest of the line after the longest run of leading "> " markers.
RECURSIVE skipQuoteMarkers(_)
skipQuoteMarkers(line) ==
    IF Len(line) >= 2 /\ line[1] = ">" /\ line[2] = " "
    THEN skipQuoteMarkers(substringFrom(line, 2))
    ELSE line

\* Mutant: a TASK_REGEX without the " *" that admits indented items.
matchesTaskRegex_NoIndent(thisLine) ==
    LET rest == skipQuoteMarkers(thisLine)
    IN  /\ Len(rest) >= 5
        /\ rest[1] = "-" /\ rest[2] = " " /\ rest[3] = "["
        /\ rest[4] \notin LineTerminators
        /\ rest[5] = "]"

\* thisLine.search(TASK_REGEX) # -1, for TASK_REGEX = ^(> )*( *(- \[.]))
\* After (> )* has taken every leading "> " the rest must be spaces and the
\* checkbox; giving a "> " back leaves a ">" that neither " *" nor "-" matches.
matchesTaskRegex(thisLine) ==
    LET rest == skipChars(skipQuoteMarkers(thisLine), " ")
    IN  /\ Len(rest) >= 5
        /\ rest[1] = "-" /\ rest[2] = " " /\ rest[3] = "["
        /\ rest[4] \notin LineTerminators
        /\ rest[5] = "]"

\* How many of the lines from 0-based index from on match TASK_REGEX before
\* the first that does not: the loop of writeLineToListEnd.
RECURSIVE countListItems(_, _)
countListItems(linesArray, from) ==
    IF from + 1 > Len(linesArray) THEN 0
    ELSE IF ~matchesTaskRegex(linesArray[from + 1]) THEN 0
    ELSE 1 + countListItems(linesArray, from + 1)

\* A variant that assigns the suffix to the element instead of appending it.
appendToElement_Replace(linesArray, index, suffix) ==
    IF index < 0 THEN linesArray
    ELSE [linesArray EXCEPT ![index + 1] = suffix]

\* linesArray[index] += suffix.  An index of -1 names no element of the
\* array: the assignment sets a property that join does not see.
appendToElement(linesArray, index, suffix) ==
    IF index < 0 THEN linesArray
    ELSE [linesArray EXCEPT ![index + 1] = @ \o suffix]

Returns(value) == [threw |-> FALSE, value |-> value]
Throws == [threw |-> TRUE, value |-> None]

textIsEmpty(text) == Len(text) = 0

headingIsEmpty(heading) == heading = <<>>

\* The body of writeLineToListEnd once its two guards have passed.
insertAtListEnd(content, heading, text) ==
    LET linesArray == split(content)
        start == indexOf(linesArray, heading) + 1
        insertionLine == start + countListItems(linesArray, start)
    IN  join(appendToElement(linesArray, insertionLine - 1, <<NEWLINE>> \o text))

\* Mutant: the two guards in the other order.
writeLineToListEnd_HeadingFirst(content, heading, text) ==
    IF headingIsEmpty(heading) THEN Throws
    ELSE IF textIsEmpty(text) THEN Returns(content)
    ELSE Returns(insertAtListEnd(content, heading, text))

\* Mutant: an empty heading is a silent no-op.
writeLineToListEnd_SilentOnEmptyHeading(content, heading, text) ==
    IF textIsEmpty(text) \/ headingIsEmpty(heading) THEN Returns(content)
    ELSE Returns(insertAtListEnd(content, heading, text))

\* textToAppend is always a string here (the parameter also admits an array).
writeLineToListEnd(content, heading, text) ==
    IF textIsEmpty(text) THEN Returns(content)
    ELSE IF headingIsEmpty(heading) THEN Throws
    ELSE Returns(insertAtListEnd(content, heading, text))

(***************************************************************************)
(* ActionDispatcher                                                        *)
(***************************************************************************)

ocTrigger == <<" ", FLAG, " ">>

Delete == <<"D", "e", "l", "e", "t", "e">>
ToLogFile == <<"T", "o", "L", "o", "g", "F", "i", "l", "e">>
ToLogList == <<"T", "o", "L", "o", "g", "L", "i", "s", "t">>
EndOfList == <<"E", "n", "d", "O", "f", "L", "i", "s", "t">>

\* The literal that selects an action: the flag, a space, the action's name.
Trigger(name) == <<FLAG, " ">> \o name

\* '## Archived Tasks - Appended'
ArchivedTasksAppended ==
    <<"#", "#", " ", "A", "r", "c", "h", "i", "v", "e", "d", " ",
      "T", "a", "s", "k", "s", " ", "-", " ",
      "A", "p", "p", "e", "n", "d", "e", "d">>

\* '## Archived Tasks - Prepended', the heading of the commented-out call.
ArchivedTasksPrepended ==
    <<"#", "#", " ", "A", "r", "c", "h", "i", "v", "e", "d", " ",
      "T", "a", "s", "k", "s", " ", "-", " ",
      "P", "r", "e", "p", "e", "n", "d", "e", "d">>

\* The closure (data) => appendToEndOfFile(data, textToWrite).
AppendUpdater(textToWrite) ==
    [fn |-> "appendToEndOfFile", heading |-> <<>>, text |-> textToWrite]

\* The closure (data) => writeLineToListEnd(data, heading, textToWrite).
ListEndUpdater(heading, textToWrite) ==
    [fn |-> "writeLineToListEnd", heading |-> heading, text |-> textToWrite]

\* fileContentUpdater(data)
ApplyUpdater(updater, data) ==
    IF updater.fn = "appendToEndOfFile"
    THEN Returns(appendToEndOfFile(data, updater.text))
    ELSE writeLineToListEnd(data, updater.heading, updater.text)

\* One call fileWriter(filePath, fileContentUpdater).
FileWriterCall(filePath, fileContentUpdater) ==
    [filePath |-> filePath, fileContentUpdater |-> fileContentUpdater]

\* Mutant: filters by the task's text instead of by the object's identity.
returnWithoutCompletedInstance_ByText(list, changedStatusTask) ==
    SelectSeq(list, LAMBDA t : t.description # changedStatusTask.description)

returnWithoutCompletedInstance(list, changedStatusTask) ==
    SelectSeq(list, LAMBDA t : t.ref # changedStatusTask.ref)

\* Mutant: the early return without the check that the status type changed.
noActionApplies_NoTypeCheck(origTask, changedStatusTask) ==
    \/ ~includes(changedStatusTask.description, ocTrigger)
    \/ changedStatusTask.status.type # DONE

\* Mutant: the early return without the check that the new status is DONE.
noActionApplies_NoDoneCheck(origTask, changedStatusTask) ==
    \/ ~includes(changedStatusTask.description, ocTrigger)
    \/ changedStatusTask.status.type = origTask.status.type

\* Mutant: the delimiter is looked for in the original task's description.
noActionApplies_OriginalDescription(origTask, changedStatusTask) ==
    \/ ~includes(origTask.description, ocTrigger)
    \/ changedStatusTask.status.type # DONE
    \/ changedStatusTask.status.type = origTask.status.type

\* The condition of the early return that follows the empty-list check.
noActionApplies(origTask, changedStatusTask) ==
    \/ ~includes(changedStatusTask.description, ocTrigger)
    \/ changedStatusTask.status.type # DONE
    \/ changedStatusTask.status.type = origTask.status.type

\* Mutant: the ToLogFile branch writes to the task's own file.
toLogFileWrite_OwnPath(logFilePath, changedStatusTask, textToWrite) ==
    FileWriterCall(changedStatusTask.path, AppendUpdater(textToWrite))

\* The fileWriter call of the ToLogFile branch.
toLogFileWrite(logFilePath, changedStatusTask, textToWrite) ==
    FileWriterCall(logFilePath, AppendUpdater(textToWrite))

\* The fileWriter call of the ToLogList branch.
toLogListWrite(logFilePath, changedStatusTask, textToWrite) ==
    FileWriterCall(changedStatusTask.path,
                   ListEndUpdater(ArchivedTasksAppended, textToWrite))

\* Mutant: the EndOfList branch uses the heading of the commented-out call.
endOfListWrite_Prepended(logFilePath, changedStatusTask, textToWrite) ==
    FileWriterCall(changedStatusTask.path,
                   ListEndUpdater(ArchivedTasksPrepended, textToWrite))

\* The fileWriter call of the EndOfList branch.
endOfListWrite(logFilePath, changedStatusTask, textToWrite) ==
    FileWriterCall(changedStatusTask.path,
                   ListEndUpdater(ArchivedTasksAppended, textToWrite))

\* What the function returns when no recognized trigger is in the description.
unknownAction(list, changedStatusTask) == list

\* The outcome of one call: the returned list and the fileWriter calls made.
Outcome(list, calls) == [returned |-> list, calls |-> calls]

\* Mutant: the ToLogFile trigger is looked for before the Delete trigger.
handleOnCompletion_ToLogFileFirst(origTask, list, logFilePath) ==
    IF Len(list) = 0 THEN Outcome(list, <<>>)
    ELSE
    LET changedStatusTask == list[Len(list)]
        taskString == changedStatusTask.description
        textToWrite == adjustLineForArchival(toFileLineString(changedStatusTask))
        remaining == returnWithoutCompletedInstance(list, changedStatusTask)
    IN  IF noActionApplies(origTask, changedStatusTask)
        THEN Outcome(list, <<>>)
        ELSE IF includes(taskString, Trigger(ToLogFile))
        THEN Outcome(remaining,
                     << toLogFileWrite(logFilePath, changedStatusTask, textToWrite) >>)
        ELSE IF includes(taskString, Trigger(Delete))
        THEN Outcome(remaining, <<>>)
        ELSE IF includes(taskString, Trigger(ToLogList))
        THEN Outcome(remaining,
                     << toLogListWrite(logFilePath, changedStatusTask, textToWrite) >>)
        ELSE IF includes(taskString, Trigger(EndOfList))
        THEN Outcome(remaining,
                     << endOfListWrite(logFilePath, changedStatusTask, textToWrite) >>)
        ELSE Outcome(unknownAction(list, changedStatusTask), <<>>)

handleOnCompletion(origTask, list, logFilePath) ==
    IF Len(list) = 0 THEN Outcome(list, <<>>)
    ELSE
    LET changedStatusTask == list[Len(list)]
        taskString == changedStatusTask.description
        textToWrite == adjustLineForArchival(toFileLineString(changedStatusTask))
        remaining == returnWithoutCompletedInstance(list, changedStatusTask)
    IN  IF noActionApplies(origTask, changedStatusTask)
        THEN Outcome(list, <<>>)
        ELSE IF includes(taskString, Trigger(Delete))
        THEN Outcome(remaining, <<>>)
        ELSE IF includes(taskString, Trigger(ToLogFile))
        THEN Outcome(remaining,
                     << toLogFileWrite(logFilePath, changedStatusTask, textToWrite) >>)
        ELSE IF includes(taskString, Trigger(ToLogList))
        THEN Outcome(remaining,
                     << toLogListWrite(logFilePath, changedStatusTask, textToWrite) >>)
        ELSE IF includes(taskString, Trigger(EndOfList))
        THEN Outcome(remaining,
                     << endOfListWrite(logFilePath, changedStatusTask, textToWrite) >>)
        ELSE Outcome(unknownAction(list, changedStatusTask), <<>>)

(***************************************************************************)
(* Spec: handleOnCompletion applied to drawn arguments                     *)
(***************************************************************************)

\* Most tasks of a drawn successor list.
MaxTasks == 2

Statuses ==
    { Status("TODO", " "), Status(DONE, "x"), Status(DONE, "X"),
      Status("IN_PROGRESS", "/"), Status("CANCELLED", "-") }

\* Names that may follow the flag: the four recognized ones, an unknown one,
\* the empty one, a recognized name with a letter appended and a recognized
\* name in lower case.
ActionNames ==
    { Delete, ToLogFile, ToLogList, EndOfList,
      <<"Z", "a", "p">>, <<>>,
      Delete \o <<"d">>, <<"d", "e", "l", "e", "t", "e">> }

RecognizedNames == { Delete, ToLogFile, ToLogList, EndOfList }

\* Descriptions with no trigger, with one trigger (space-padded or glued to
\* the preceding word), and with two space-padded triggers.
Descriptions ==
    { <<"t">> }
    \cup { <<"t">> \o pad \o Trigger(name) : pad \in { <<>>, <<" ">> }, name \in ActionNames }
    \cup { <<"t", " ">> \o Trigger(a) \o <<" ">> \o Trigger(b) :
               a, b \in RecognizedNames \cup { <<"Z", "a", "p">> } }
    \cup { <<"t">> \o Trigger(Delete) \o <<" ">> \o Trigger(<<"Z", "a", "p">>) }

\* Indentation of a task line: none, or spaces and a callout marker.
Indentations == { <<>>, <<" ", " ", ">", " ">> }

\* The task whose status was changed, as the caller holds it.
OriginalTasks ==
    { MakeTask(0, st, d, path, <<>>) :
        st \in Statuses,
        d \in { <<"t", " ">> \o Trigger(ToLogFile), <<"o">> },
        path \in { "note.md", "orig.md" } }

\* The completed instance: the last element of the successor list.
ChangedTasks(ref) ==
    { MakeTask(ref, st, d, path, ind) :
        st \in Statuses, d \in Descriptions,
        path \in { "note.md", "other.md" }, ind \in Indentations }

\* The elements before the last.  Each is an object of its own: the next
\* occurrence of a recurring task (the changed task set back to TODO), or a
\* task with the changed task's very content.
EarlierTasks(k, changed) ==
    { [i \in 1..k |->
          IF kinds[i] = "next"
          THEN [changed EXCEPT !.ref = i, !.status = Status("TODO", " ")]
          ELSE [changed EXCEPT !.ref = i]] :
      kinds \in [1..k -> {"next", "twin"}] }

\* The successor lists of n tasks: element i is the object with ref i, the
\* last element is the task with the new status.
SuccessorLists(n) ==
    IF n = 0 THEN { <<>> }
    ELSE UNION { { earlier \o << c >> : earlier \in EarlierTasks(n - 1, c) } :
                 c \in ChangedTasks(n) }

DrawnLogFilePaths == { "archive.md", "note.md" }

Init ==
    /\ pc = "start"
    /\ task \in OriginalTasks
    /\ tasks \in UNION { SuccessorLists(n) : n \in 0..MaxTasks }
    /\ toLogFilePath \in DrawnLogFilePaths
    /\ returned = None /\ fileWriterCalls = None
    /\ initialFileContent = None /\ targetListHeading = None
    /\ textToAppend = None /\ newFileContent = None
    /\ lineOfText = None /\ adjustedLine = None
    /\ instance = None /\ callHistory = None
    /\ vault = None /\ jobs = None /\ console = None

HandleOnCompletion ==
    /\ pc = "start"
    /\ LET r == handleOnCompletion(task, tasks, toLogFilePath)
       IN  /\ returned' = r.returned
           /\ fileWriterCalls' = r.calls
    /\ pc' = "returned"
    /\ UNCHANGED << task, tasks, toLogFilePath,
                    initialFileContent, targetListHeading, textToAppend,
                    newFileContent, lineOfText, adjustedLine,
                    gfVars, fsVars >>

Next == HandleOnCompletion

Spec == Init /\ [][Next]_vars

(***************************************************************************)
(* SpecAdj: adjustLineForArchival applied to one drawn line                *)
(***************************************************************************)

\* Most prefix segments a drawn line starts with.
MaxPrefixSegments == 4

\* What a line may start with before its checkbox marker: indentation
\* characters and block-quote/callout markers.
PrefixSegments == { <<" ">>, <<"\t">>, <<">", " ">> }

\* The text of a task line from its list marker on (trailing text included).
LineBodies ==
    { <<"-", " ", "[", " ", "]", " ", "t">>,
      <<"*", " ", "[", "x", "]", " ", "t", " ">>,
      <<"+", " ", "[", "/", "]", " ", ">", " ", "t">> }

RECURSIVE Prefixes(_)
Prefixes(n) ==
    IF n = 0 THEN { <<>> }
    ELSE LET shorter == Prefixes(n - 1)
         IN  shorter \cup { seg \o p : seg \in PrefixSegments, p \in shorter }

DrawnLines == { p \o b : p \in Prefixes(MaxPrefixSegments), b \in LineBodies }

InitAdj ==
    /\ pc = "start"
    /\ lineOfText \in DrawnLines
    /\ adjustedLine = None
    /\ task = None /\ tasks = None /\ toLogFilePath = None
    /\ returned = None /\ fileWriterCalls = None
    /\ initialFileContent = None /\ targetListHeading = None
    /\ textToAppend = None /\ newFileContent = None
    /\ instance = None /\ callHistory = None
    /\ vault = None /\ jobs = None /\ console = None

AdjustLineForArchival ==
    /\ pc = "start"
    /\ adjustedLine' = adjustLineForArchival(lineOfText)
    /\ pc' = "adjusted"
    /\ UNCHANGED << task, tasks, toLogFilePath, returned, fileWriterCalls,
                    initialFileContent, targetListHeading, textToAppend,
                    newFileContent, lineOfText,
                    gfVars, fsVars >>

NextAdj == AdjustLineForArchival

SpecAdj == InitAdj /\ [][NextAdj]_vars

\* p consists only of leading whitespace and "> " markers, in any order.
RECURSIVE IsQuoteIndentPrefix(_)
IsQuoteIndentPrefix(p) ==
    \/ p = <<>>
    \/ p[1] \in WhiteSpace /\ IsQuoteIndentPrefix(Tail(p))
    \/ Len(p) >= 2 /\ p[1] = ">" /\ p[2] = " "
       /\ IsQuoteIndentPrefix(substringFrom(p, 2))

\* b starts with a checkbox marker: "- [c]", "* [c]" or "+ [c]".
StartsWithCheckbox(b) ==
    /\ Len(b) >= 5
    /\ b[1] \in {"-", "*", "+"} /\ b[2] = " " /\ b[3] = "[" /\ b[5] = "]"

\* C10: whenever the line is a prefix of whitespace and "> " markers (in any
\* combination) followed by a checkbox marker and the rest of the task, the
\* normalizer returns exactly the text from the checkbox marker on, so its
\* result starts with neither whitespace nor "> ".
C10_PrefixStripped ==
    pc = "adjusted" =>
        \A k \in 0..Len(lineOfText) :
            ( /\ IsQuoteIndentPrefix(SubSeq(lineOfText, 1, k))
              /\ StartsWithCheckbox(substringFrom(lineOfText, k)) )
            => adjustedLine = substringFrom(lineOfText, k)

\* C11: the normalizer is idempotent: applying adjustLineForArchival to its
\* own result gives that result again, and so does removeCalloutPrefixes, for
\* lines with any number of leading "> " markers.
C11_NormalizerIdempotent ==
    pc = "adjusted" =>
        /\ adjustLineForArchival(adjustedLine) = adjustedLine
        /\ removeCalloutPrefixes(removeCalloutPrefixes(lineOfText))
               = removeCalloutPrefixes(lineOfText)

(***************************************************************************)
(* SpecWL: writeLineToListEnd applied to drawn arguments                   *)
(***************************************************************************)

\* Most lines of a drawn file.
MaxLines == 3

HeadingLine == <<"#", "H">>

\* The lines a drawn file is made of: the heading, a blank line, plain text,
\* another heading, list items (plain, indented, and indented inside two
\* block-quote levels) and lines that only resemble list items (another list
\* marker, a space before the block-quote marker, a carriage return as the
\* checkbox character).
FileLines ==
    { HeadingLine,
      <<>>,
      <<"t">>,
      <<"#", "O">>,
      <<"-", " ", "[", " ", "]">>,
      <<" ", " ", "-", " ", "[", "x", "]">>,
      <<">", " ", ">", " ", " ", "-", " ", "[", "/", "]">>,
      <<"*", " ", "[", " ", "]">>,
      <<" ", ">", " ", "-", " ", "[", " ", "]">>,
      <<"-", " ", "[", "\r", "]">> }

RECURSIVE LineSeqs(_)
LineSeqs(n) ==
    IF n = 0 THEN { <<>> }
    ELSE LET shorter == LineSeqs(n - 1)
         IN  shorter \cup { <<l>> \o ls : l \in FileLines, ls \in shorter }

DrawnFiles == { join(ls) : ls \in LineSeqs(MaxLines) }

DrawnHeadings == { HeadingLine, <<>> }

DrawnTexts == { <<>>, <<"-", " ", "[", "x", "]", " ", "n">> }

InitWL ==
    /\ pc = "start"
    /\ initialFileContent \in DrawnFiles
    /\ targetListHeading \in DrawnHeadings
    /\ textToAppend \in DrawnTexts
    /\ newFileContent = None
    /\ task = None /\ tasks = None /\ toLogFilePath = None
    /\ returned = None /\ fileWriterCalls = None
    /\ lineOfText = None /\ adjustedLine = None
    /\ instance = None /\ callHistory = None
    /\ vault = None /\ jobs = None /\ console = None

WriteLineToListEnd ==
    /\ pc = "start"
    /\ LET r == writeLineToListEnd(initialFileContent, targetListHeading, textToAppend)
       IN  /\ pc' = IF r.threw THEN "threw" ELSE "returned"
           /\ newFileContent' = r.value
    /\ UNCHANGED << task, tasks, toLogFilePath, returned, fileWriterCalls,
                    initialFileContent, targetListHeading, textToAppend,
                    lineOfText, adjustedLine,
                    gfVars, fsVars >>

NextWL == WriteLineToListEnd

SpecWL == InitWL /\ [][NextWL]_vars

\* seg repeated n times.
RECURSIVE Repeat(_, _)
Repeat(seg, n) == IF n = 0 THEN <<>> ELSE seg \o Repeat(seg, n - 1)

\* A list-item line: any number of "> " markers, then any number of spaces,
\* then the checkbox "- [c]" for one character c of a line (a carriage
\* return is none).
IsListItem(line) ==
    \E q, n \in 0..Len(line) :
        LET lead == Repeat(<<">", " ">>, q) \o Repeat(<<" ">>, n)
        IN  /\ startsWith(line, lead \o <<"-", " ", "[">>)
            /\ Len(line) >= Len(lead) + 5
            /\ line[Len(lead) + 4] # "\r"
            /\ line[Len(lead) + 5] = "]"

\* Lines i+1..k of the file are list items and line k+1 (if any) is not:
\* k is the last line of the contiguous list that follows line i.
IsListEndAfter(fileLines, i, k) ==
    /\ i < k /\ k <= Len(fileLines)
    /\ \A j \in (i + 1)..k : IsListItem(fileLines[j])
    /\ k < Len(fileLines) => ~IsListItem(fileLines[k + 1])

\* The file with text as a new line right after its line k, nothing else changed.
WithLineAfter(fileLines, k, text) ==
    join(SubSeq(fileLines, 1, k) \o << text >> \o SubSeq(fileLines, k + 1, Len(fileLines)))

InputLines == split(initialFileContent)

\* Line i is the first line of the file equal to heading.
IsFirstLineEqual(fileLines, heading, i) ==
    /\ i \in 1..Len(fileLines)
    /\ fileLines[i] = heading
    /\ \A j \in 1..(i - 1) : fileLines[j] # heading

IsFirstHeading(i) == IsFirstLineEqual(InputLines, targetListHeading, i)

\* C7 as stated: when some line of the file equals the (non-empty) heading and
\* is followed by one or more contiguous list items, and the insertion text is
\* not empty, the call returns the file with the text as a new line right
\* after the last of those items.
C7_InsertedAfterSomeHeadedList ==
    ( /\ pc # "start"
      /\ textToAppend # <<>>
      /\ targetListHeading # <<>>
      /\ \E i, k \in 1..Len(InputLines) :
             InputLines[i] = targetListHeading /\ IsListEndAfter(InputLines, i, k) )
    => /\ pc = "returned"
       /\ \E i, k \in 1..Len(InputLines) :
              /\ InputLines[i] = targetListHeading
              /\ IsListEndAfter(InputLines, i, k)
              /\ newFileContent = WithLineAfter(InputLines, k, textToAppend)

\* C7 amended: when the heading is not empty, the FIRST line of the file equal
\* to it is followed by one or more contiguous list items, and the insertion
\* text is not empty, the call returns the file with the text as a new line
\* right after the last of those items, everything else unchanged.
C7_InsertedAfterFirstHeadedList ==
    \A i, k \in 1..Len(InputLines) :
        ( /\ pc # "start"
          /\ textToAppend # <<>>
          /\ targetListHeading # <<>>
          /\ IsFirstHeading(i)
          /\ IsListEndAfter(InputLines, i, k) )
        => /\ pc = "returned"
           /\ newFileContent = WithLineAfter(InputLines, k, textToAppend)

\* C7 witness: the text was inserted after the list under the first heading,
\* where the list holds an item indented inside two block-quote levels and is
\* followed by a further line of the file.
C7_Witness ==
    /\ pc = "returned"
    /\ textToAppend # <<>>
    /\ \E i, k \in 1..Len(InputLines) :
           /\ IsFirstHeading(i)
           /\ IsListEndAfter(InputLines, i, k)
           /\ k < Len(InputLines)
           /\ \E j \in (i + 1)..k :
                  startsWith(InputLines[j], <<">", " ", ">", " ", " ">>)
           /\ newFileContent = WithLineAfter(InputLines, k, textToAppend)

\* C8: with an empty insertion text the call returns the file text unchanged
\* and signals no error, whatever the file and the heading (the empty heading
\* included).
C8_EmptyTextIsNoOp ==
    (pc # "start" /\ textToAppend = <<>>)
    => (pc = "returned" /\ newFileContent = initialFileContent)

\* C8 witness: the call returned for an empty text and an empty heading.
C8_Witness ==
    /\ pc = "returned" /\ textToAppend = <<>> /\ targetListHeading = <<>>
    /\ initialFileContent # <<>>

\* C9: with an empty heading and a non-empty insertion text the call signals
\* the configuration error and returns no content.
C9_EmptyHeadingThrows ==
    (pc # "start" /\ targetListHeading = <<>> /\ textToAppend # <<>>)
    => (pc = "threw" /\ newFileContent = None)

\* C9 witness: the call threw on a file that begins with a blank line followed
\* by a list item, where the empty heading would match a line of the file.
C9_Witness ==
    /\ pc = "threw" /\ targetListHeading = <<>> /\ textToAppend # <<>>
    /\ Len(InputLines) >= 2 /\ InputLines[1] = <<>> /\ IsListItem(InputLines[2])

\* The number of list items the file begins with.
RECURSIVE LeadingListItems(_)
LeadingListItems(fileLines) ==
    IF fileLines = <<>> \/ ~IsListItem(fileLines[1]) THEN 0
    ELSE 1 + LeadingListItems(Tail(fileLines))

HeadingAbsent ==
    \A i \in 1..Len(InputLines) : InputLines[i] # targetListHeading

\* C13: when the heading is no line of the file and the insertion text is
\* not empty, the text is inserted as if the heading stood before the first
\* line: after the list items the file begins with, hence as the first line
\* of the result when the file begins with none; the text is always in the
\* result.
C13_AbsentHeadingInsertsAtTop ==
    ( /\ pc # "start"
      /\ textToAppend # <<>> /\ targetListHeading # <<>>
      /\ HeadingAbsent )
    => /\ pc = "returned"
       /\ newFileContent =
              WithLineAfter(InputLines, LeadingListItems(InputLines), textToAppend)

\* How many lines of fileLines equal line.
RECURSIVE Occurrences(_, _)
Occurrences(fileLines, line) ==
    IF fileLines = <<>> THEN 0
    ELSE (IF Head(fileLines) = line THEN 1 ELSE 0) + Occurrences(Tail(fileLines), line)

\* C14: for a non-empty heading and a non-empty insertion text the call
\* returns, and its result is the input file with at most one new line, the
\* insertion text, placed between two of its lines: every line of the input
\* is in the result, unchanged and in its original order (deleting the
\* inserted line gives back the input), and the result has as many heading
\* lines as the input.
C14_ExistingLinesKept ==
    ( /\ pc # "start"
      /\ textToAppend # <<>> /\ targetListHeading # <<>> )
    => /\ pc = "returned"
       /\ \/ newFileContent = initialFileContent
          \/ \E k \in 0..Len(InputLines) :
                 newFileContent = WithLineAfter(InputLines, k, textToAppend)
       /\ Occurrences(split(newFileContent), targetListHeading)
              = Occurrences(InputLines, targetListHeading)

\* The text went in after a block-quoted list item under the heading, with a
\* further line after it.
C14_Witness ==
    /\ pc = "returned"
    /\ textToAppend # <<>>
    /\ \E i \in 1..Len(InputLines) :
           /\ IsFirstHeading(i)
           /\ i + 1 < Len(InputLines)
           /\ InputLines[i + 1] = <<">", " ", ">", " ", " ", "-", " ", "[", "/", "]">>
           /\ ~IsListItem(InputLines[i + 2])
           /\ newFileContent = WithLineAfter(InputLines, i + 1, textToAppend)
           /\ newFileContent # initialFileContent

(***************************************************************************)
(* Properties of handleOnCompletion                                        *)
(***************************************************************************)

\* The last successor: the task whose status was changed.
Changed == tasks[Len(tasks)]

\* The successor list without its last element.
AllButLast == SubSeq(tasks, 1, Len(tasks) - 1)

\* A qualifying transition: the last successor is DONE, which the original
\* was not, and its description holds the space-padded delimiter.
GatePasses ==
    /\ tasks # <<>>
    /\ Changed.status.type = DONE
    /\ Changed.status.type # task.status.type
    /\ includes(Changed.description, ocTrigger)

\* The recognized trigger of highest priority that description contains.
SelectedAction(description) ==
    IF includes(description, Trigger(Delete)) THEN "Delete"
    ELSE IF includes(description, Trigger(ToLogFile)) THEN "ToLogFile"
    ELSE IF includes(description, Trigger(ToLogList)) THEN "ToLogList"
    ELSE IF includes(description, Trigger(EndOfList)) THEN "EndOfList"
    ELSE "none"

\* The completed instance's line as it is archived.
NormalizedLine == adjustLineForArchival(toFileLineString(Changed))

\* File contents a transform is tried on: empty, text with and without a
\* final newline, and files with the archive heading: with a list under it,
\* with a list and further text, with nothing under it.
SimulatedData ==
    { <<>>,
      <<"t">>,
      <<"t", NEWLINE>>,
      ArchivedTasksAppended,
      <<"t", NEWLINE>> \o ArchivedTasksAppended \o <<NEWLINE, "-", " ", "[", " ", "]">>,
      ArchivedTasksAppended \o <<NEWLINE, "-", " ", "[", " ", "]", NEWLINE, NEWLINE, "t">>,
      <<"-", " ", "[", " ", "]", NEWLINE, "t">> }

\* C1: the successor list is returned unchanged (same elements, same order)
\* when it is empty, when the last successor's status type equals the
\* original's (DONE to DONE with another symbol included), or when the last
\* successor's description lacks the space-padded delimiter.
C1_GateClosedReturnsInput ==
    ( /\ pc = "returned"
      /\ \/ tasks = <<>>
         \/ Changed.status.type = task.status.type
         \/ ~includes(Changed.description, ocTrigger) )
    => returned = tasks

\* C1 witness: a DONE task with a Delete trigger was given another DONE
\* symbol, and the call returned a two-element list.
C1_Witness ==
    /\ pc = "returned" /\ Len(tasks) = 2
    /\ task.status.type = DONE /\ Changed.status.type = DONE
    /\ task.status.symbol # Changed.status.symbol
    /\ includes(Changed.description, <<" ">> \o Trigger(Delete))
    /\ returned = tasks

\* C2: the mutator is called exactly once when the gate passes and the
\* selected action is ToLogFile, ToLogList or EndOfList, and not at all in
\* every other case.
C2_MutatorCalledAtMostOnce ==
    pc = "returned" =>
        Len(fileWriterCalls) =
            IF GatePasses /\ SelectedAction(Changed.description)
                                \in {"ToLogFile", "ToLogList", "EndOfList"}
            THEN 1 ELSE 0

\* C2 witness: a call that passed the gate with ToLogList made one call.
C2_Witness ==
    /\ pc = "returned" /\ GatePasses
    /\ SelectedAction(Changed.description) = "ToLogList"
    /\ Len(fileWriterCalls) = 1

\* C3: on a qualifying transition whose description contains the Delete
\* trigger the call returns the list without its last element, the others
\* kept in order.
C3_DeleteRemovesCompletedInstance ==
    ( /\ pc = "returned" /\ GatePasses
      /\ includes(Changed.description, Trigger(Delete)) )
    => returned = AllButLast

\* C3 witness: Delete on a two-element list whose first element has the
\* completed instance's very content; that element alone is returned.
C3_Witness ==
    /\ pc = "returned" /\ GatePasses /\ Len(tasks) = 2
    /\ includes(Changed.description, Trigger(Delete))
    /\ tasks[1] = [Changed EXCEPT !.ref = 1]
    /\ returned = << tasks[1] >>

RECURSIVE SwapListNames(_)
SwapListNames(s) ==
    IF s = <<>> THEN <<>>
    ELSE IF startsWith(s, ToLogList)
    THEN EndOfList \o SwapListNames(substringFrom(s, Len(ToLogList)))
    ELSE IF startsWith(s, EndOfList)
    THEN ToLogList \o SwapListNames(substringFrom(s, Len(EndOfList)))
    ELSE << s[1] >> \o SwapListNames(Tail(s))

\* The arguments of the run that differs from this one only in which of the
\* two names the completed instance's description uses.
TwinTasks ==
    [tasks EXCEPT ![Len(tasks)].description = SwapListNames(@)]

TwinOutcome == handleOnCompletion(task, TwinTasks, toLogFilePath)

\* The first line of the file equal to heading is followed by list items up
\* to line k, and result is the file with text as a new line after line k.
InsertedAtListEndUnder(data, heading, text, result) ==
    \E i, k \in 1..Len(split(data)) :
        /\ split(data)[i] = heading
        /\ \A j \in 1..(i - 1) : split(data)[j] # heading
        /\ \A j \in (i + 1)..k : IsListItem(split(data)[j])
        /\ i <= k
        /\ k < Len(split(data)) => ~IsListItem(split(data)[k + 1])
        /\ result = join(SubSeq(split(data), 1, k) \o << text >>
                         \o SubSeq(split(data), k + 1, Len(split(data))))

\* What C5 says of one run: one mutator call, on the changed task's own
\* file, whose transform puts the normalized line at the end of the list
\* under '## Archived Tasks - Appended'; the list returned without the
\* completed instance.
ListActionMechanics ==
    /\ Len(fileWriterCalls) = 1
    /\ fileWriterCalls[1].filePath = Changed.path
    /\ \A data \in SimulatedData :
           LET r == ApplyUpdater(fileWriterCalls[1].fileContentUpdater, data)
           IN  /\ ~r.threw
               /\ includes(split(data), << ArchivedTasksAppended >>)
                  => InsertedAtListEndUnder(data, ArchivedTasksAppended,
                                            NormalizedLine, r.value)
    /\ returned = AllButLast

IsListAction ==
    /\ pc = "returned" /\ GatePasses
    /\ SelectedAction(Changed.description) \in {"ToLogList", "EndOfList"}

RECURSIVE nameAtStart(_)
nameAtStart(s) ==
    IF s = <<>> \/ s[1] \in {" ", FLAG} THEN <<>>
    ELSE << s[1] >> \o nameAtStart(Tail(s))

\* The action names of a description: what follows each flag and space.
NamesAfterFlag(description) ==
    { nameAtStart(substringFrom(description, i + 1)) :
        i \in { j \in 1..(Len(description) - 1) :
                    description[j] = FLAG /\ description[j + 1] = " " } }

\* C6: when the gate passes and no action name that follows the flag is one
\* of Delete, ToLogFile, ToLogList, EndOfList, the list is returned unchanged
\* and the mutator is not called.
C6_OtherNamesAreInert ==
    ( /\ pc = "returned" /\ GatePasses
      /\ NamesAfterFlag(Changed.description) \cap RecognizedNames = {} )
    => (returned = tasks /\ fileWriterCalls = <<>>)

\* The recognized triggers that description contains.
ContainedTriggers(description) ==
    { name \in RecognizedNames : includes(description, Trigger(name)) }

\* The order in which the triggers are looked for.
TriggerPriority == << Delete, ToLogFile, ToLogList, EndOfList >>

\* The contained trigger that comes first in TriggerPriority.
FirstInPriority(description) ==
    TriggerPriority[CHOOSE i \in 1..Len(TriggerPriority) :
        /\ TriggerPriority[i] \in ContainedTriggers(description)
        /\ \A j \in 1..(i - 1) :
               TriggerPriority[j] \notin ContainedTriggers(description)]

\* C15: when the gate passes and the last successor's description contains
\* more than one recognized trigger, wherever each stands in the text, only
\* the one that comes first in the order Delete, ToLogFile, ToLogList,
\* EndOfList is executed: Delete makes no mutator call, ToLogFile makes the
\* one call that appends to the log file, a list action makes the one call
\* that inserts under the archive heading of the task's own file; the
\* completed instance is removed in each case.
C15_FirstTriggerInPriorityWins ==
    ( /\ pc = "returned" /\ GatePasses
      /\ Cardinality(ContainedTriggers(Changed.description)) >= 2 )
    => LET first == FirstInPriority(Changed.description)
       IN  /\ returned = AllButLast
           /\ first = Delete => fileWriterCalls = <<>>
           /\ first = ToLogFile =>
                  fileWriterCalls =
                      << FileWriterCall(toLogFilePath, AppendUpdater(NormalizedLine)) >>
           /\ first \in {ToLogList, EndOfList} =>
                  fileWriterCalls =
                      << FileWriterCall(Changed.path,
                             ListEndUpdater(ArchivedTasksAppended, NormalizedLine)) >>

\* C15 witness: the description holds the ToLogFile trigger and, after it,
\* the Delete trigger; the completed instance was removed without a call.
C15_Witness ==
    /\ pc = "returned" /\ GatePasses
    /\ Changed.description
           = <<"t", " ">> \o Trigger(ToLogFile) \o <<" ">> \o Trigger(Delete)
    /\ Len(tasks) = 2 /\ returned = AllButLast
    /\ fileWriterCalls = <<>>

\* C16: the outcome depends on the original task only through its status
\* type: the call with any other original task of the same status type
\* (another description, path or status symbol), the same successor list and
\* the same log path gives the same returned list and the same mutator calls.
C16_OriginalMattersByStatusTypeOnly ==
    pc = "returned" =>
        \A other \in OriginalTasks :
            other.status.type = task.status.type =>
                handleOnCompletion(other, tasks, toLogFilePath)
                    = Outcome(returned, fileWriterCalls)

\* C16 witness: an original task without any trigger in its description and
\* in another file than the completed instance, whose completion was archived
\* to the log file.
C16_Witness ==
    /\ pc = "returned" /\ GatePasses
    /\ task.description = <<"o">>
    /\ task.path # Changed.path
    /\ SelectedAction(Changed.description) = "ToLogFile"
    /\ Len(fileWriterCalls) = 1 /\ returned = AllButLast
    /\ \E other \in OriginalTasks :
           /\ other.status.type = task.status.type
           /\ other.description # task.description

(***************************************************************************)
(* GlobalFilter: the static methods, as functions of GlobalFilter.instance *)
(***************************************************************************)

\* static empty = ''
empty == ""

\* The value of the static field before any instance is constructed.
undefined == [undefined |-> TRUE]

\* new GlobalFilter(): the field initializers.
NewGlobalFilter == [_globalFilter |-> "", _removeGlobalFilter |-> FALSE]

\* getInstance(): the instance, constructed on first use.  inst is the value
\* of GlobalFilter.instance before the call; the result is its value after.
getInstance(inst) == IF inst = undefined THEN NewGlobalFilter ELSE inst

get(inst) == getInstance(inst)._globalFilter

set(inst, value) == [getInstance(inst) EXCEPT !._globalFilter = value]

\* Mutant: reset replaces the instance by a new one.
reset_NewInstance(inst) == NewGlobalFilter

reset(inst) == set(inst, empty)

isEmpty(inst) == get(inst) = empty

getRemoveGlobalFilter(inst) == getInstance(inst)._removeGlobalFilter

setRemoveGlobalFilter(inst, removeGlobalFilter) ==
    [getInstance(inst) EXCEPT !._removeGlobalFilter = removeGlobalFilter]

(***************************************************************************)
(* SpecGF: sequences of calls of the static methods                        *)
(***************************************************************************)

\* Most state-changing calls of a drawn sequence.
MaxCalls == 4

FilterValues == { "", "#task", "#todo" }

GFCall(op, value, flag) == [op |-> op, value |-> value, flag |-> flag]

InitGF ==
    /\ instance = undefined
    /\ callHistory = <<>>
    /\ pc = None /\ task = None /\ tasks = None /\ toLogFilePath = None
    /\ returned = None /\ fileWriterCalls = None
    /\ initialFileContent = None /\ targetListHeading = None
    /\ textToAppend = None /\ newFileContent = None
    /\ lineOfText = None /\ adjustedLine = None
    /\ vault = None /\ jobs = None /\ console = None

\* GlobalFilter.set(value)
Set(value) ==
    /\ Len(callHistory) < MaxCalls
    /\ instance' = set(instance, value)
    /\ callHistory' = Append(callHistory, GFCall("set", value, FALSE))
    /\ UNCHANGED << callVars, fsVars >>

\* GlobalFilter.reset()
Reset ==
    /\ Len(callHistory) < MaxCalls
    /\ instance' = reset(instance)
    /\ callHistory' = Append(callHistory, GFCall("reset", "", FALSE))
    /\ UNCHANGED << callVars, fsVars >>

\* GlobalFilter.setRemoveGlobalFilter(removeGlobalFilter)
SetRemoveGlobalFilter(removeGlobalFilter) ==
    /\ Len(callHistory) < MaxCalls
    /\ instance' = setRemoveGlobalFilter(instance, removeGlobalFilter)
    /\ callHistory' =
           Append(callHistory, GFCall("setRemoveGlobalFilter", "", removeGlobalFilter))
    /\ UNCHANGED << callVars, fsVars >>

\* A call of get, isEmpty or getRemoveGlobalFilter: each goes through
\* getInstance, which constructs the instance when there is none yet.
Get ==
    /\ instance' = getInstance(instance)
    /\ UNCHANGED << callHistory, callVars, fsVars >>

NextGF ==
    \/ \E value \in FilterValues : Set(value)
    \/ Reset
    \/ \E removeGlobalFilter \in BOOLEAN : SetRemoveGlobalFilter(removeGlobalFilter)
    \/ Get

SpecGF == InitGF /\ [][NextGF]_vars

\* The value of the most recent set in calls, the empty string when there is
\* none or a reset came after it.
RECURSIVE LastFilterValue(_)
LastFilterValue(calls) ==
    IF calls = <<>> THEN ""
    ELSE LET last == calls[Len(calls)]
         IN  IF last.op = "set" THEN last.value
             ELSE IF last.op = "reset" THEN ""
             ELSE LastFilterValue(SubSeq(calls, 1, Len(calls) - 1))

\* The argument of the most recent setRemoveGlobalFilter in calls, FALSE when
\* there is none.
RECURSIVE LastRemoveFlag(_)
LastRemoveFlag(calls) ==
    IF calls = <<>> THEN FALSE
    ELSE LET last == calls[Len(calls)]
         IN  IF last.op = "setRemoveGlobalFilter" THEN last.flag
             ELSE LastRemoveFlag(SubSeq(calls, 1, Len(calls) - 1))

\* C18: after any sequence of set, reset and setRemoveGlobalFilter calls,
\* get() returns the value of the most recent set (the empty string if there
\* was none or a reset came later), isEmpty() holds exactly when get() is the
\* empty string, and getRemoveGlobalFilter() returns the argument of the most
\* recent setRemoveGlobalFilter (false if there was none).  Hence set and
\* reset leave the remove flag alone and setRemoveGlobalFilter leaves the
\* filter value alone.
C18_GlobalFilterFollowsLastCalls ==
    /\ get(instance) = LastFilterValue(callHistory)
    /\ isEmpty(instance) <=> (get(instance) = "")
    /\ getRemoveGlobalFilter(instance) = LastRemoveFlag(callHistory)

\* C18 witness: the flag was set to true, then a filter was set, then reset
\* was called: the filter is empty and the flag still true.
C18_Witness ==
    /\ Len(callHistory) = 3
    /\ callHistory[1].op = "setRemoveGlobalFilter" /\ callHistory[1].flag
    /\ callHistory[2].op = "set" /\ callHistory[2].value = "#task"
    /\ callHistory[3].op = "reset"
    /\ isEmpty(instance) /\ getRemoveGlobalFilter(instance)

(***************************************************************************)
(* updateFileContentEventually: the default fileWriter                     *)
(***************************************************************************)

\* What app.vault.getAbstractFileByPath gives for a path: no entry, a
\* folder, or a file with its content.
null == [kind |-> "null"]
TFolder == [kind |-> "TFolder"]
TFile(data) == [kind |-> "TFile", data |-> data]

getAbstractFileByPath(v, filePath) == v[filePath]

\* The part of updateFileContent that runs before its first await settles:
\* where the call stands once updateFileContentEventually has returned.
\*   "creating"    app.vault.create(filePath, '') is pending,
\*   "processing"  app.vault.process(file, ...) is pending,
\*   "logged"      the path is no file: the message went to console.log.
updateFileContent(v, filePath) ==
    LET file == getAbstractFileByPath(v, filePath)
    IN  IF file = null THEN "creating"
        ELSE IF file.kind = "TFile" THEN "processing"
        ELSE "logged"

\* One call of updateFileContentEventually made by handleOnCompletion, with
\* the completed instance and the list that handleOnCompletion returned.
Job(call, stage, changedStatusTask, returnedList) ==
    [filePath |-> call.filePath,
     fileContentUpdater |-> call.fileContentUpdater,
     stage |-> stage,
     changedStatusTask |-> changedStatusTask,
     returned |-> returnedList]

(***************************************************************************)
(* SpecFS: qualifying completions dispatched against a vault               *)
(***************************************************************************)

\* Most completions handled in one behaviour.
MaxDispatches == 2

NotePath == "note.md"
LogFilePath == "archive.md"

\* The note of the tasks: without the archive heading, or with the heading
\* and a list under it.
NoteContents ==
    { <<"t">>,
      ArchivedTasksAppended \o <<NEWLINE, "-", " ", "[", " ", "]">> }

\* The log file: not there, a folder of that name, or a file.
LogFileEntries == { null, TFolder, TFile(<<"t">>) }

\* The description of the k-th completed task is its own.
TaskLetters == <<"a", "b", "c", "d">>

\* The write-triggering completions: a TODO task of the note, completed, with
\* its next occurrence before it in the successor list.
QualifyingCalls(k) ==
    { LET changed == MakeTask(2 * k, Status(DONE, "x"),
                              << TaskLetters[k], " " >> \o Trigger(name),
                              NotePath, <<>>)
          next == [changed EXCEPT !.ref = 2 * k - 1, !.status = Status("TODO", " ")]
      IN  [task |-> [changed EXCEPT !.ref = 0, !.status = Status("TODO", " ")],
           tasks |-> << next, changed >>] :
      name \in { ToLogFile, ToLogList, EndOfList } }

InitFS ==
    /\ vault \in { [path \in { NotePath, LogFilePath } |->
                       IF path = NotePath THEN TFile(note) ELSE entry] :
                   note \in NoteContents, entry \in LogFileEntries }
    /\ jobs = <<>>
    /\ console = <<>>
    /\ pc = None /\ task = None /\ tasks = None /\ toLogFilePath = None
    /\ returned = None /\ fileWriterCalls = None
    /\ initialFileContent = None /\ targetListHeading = None
    /\ textToAppend = None /\ newFileContent = None
    /\ lineOfText = None /\ adjustedLine = None
    /\ instance = None /\ callHistory = None

\* handleOnCompletion(task, tasks) with the default toLogFilePath and the
\* default fileWriter: it returns once updateFileContent has come to its
\* first await, or has logged that the path is no file.
Dispatch(origTask, list) ==
    /\ Len(jobs) < MaxDispatches
    /\ LET r == handleOnCompletion(origTask, list, LogFilePath)
       IN  IF r.calls = <<>>
           THEN UNCHANGED << jobs, console >>
           ELSE LET call == r.calls[1]
                    stage == updateFileContent(vault, call.filePath)
                IN  /\ jobs' = Append(jobs,
                                      Job(call, stage, list[Len(list)], r.returned))
                    /\ console' = IF stage = "logged"
                                  THEN Append(console, call.filePath)
                                  ELSE console
    /\ UNCHANGED << vault, callVars, gfVars >>

\* app.vault.create(filePath, '') resolves: the empty file exists, and
\* updateFileContent goes on to app.vault.process.
CreateResolves(i) ==
    /\ jobs[i].stage = "creating"
    /\ vault[jobs[i].filePath] = null
    /\ vault' = [vault EXCEPT ![jobs[i].filePath] = TFile(<<>>)]
    /\ jobs' = [jobs EXCEPT ![i].stage = "processing"]
    /\ UNCHANGED << console, callVars, gfVars >>

\* app.vault.create(filePath, '') rejects (the file exists by now, or it
\* cannot be created): the promise of updateFileContent rejects at the
\* await, and the .then of updateFileContentEventually has no handler for it.
CreateRejects(i) ==
    /\ jobs[i].stage = "creating"
    /\ jobs' = [jobs EXCEPT ![i].stage = "rejected"]
    /\ UNCHANGED << vault, console, callVars, gfVars >>

\* app.vault.process(file, data => fileContentUpdater(data)): the content is
\* read, transformed and written in one step.
Process(i) ==
    /\ jobs[i].stage = "processing"
    /\ vault[jobs[i].filePath].kind = "TFile"
    /\ LET r == ApplyUpdater(jobs[i].fileContentUpdater, vault[jobs[i].filePath].data)
       IN  IF r.threw
           THEN /\ jobs' = [jobs EXCEPT ![i].stage = "rejected"]
                /\ UNCHANGED vault
           ELSE /\ jobs' = [jobs EXCEPT ![i].stage = "done"]
                /\ vault' = [vault EXCEPT ![jobs[i].filePath] = TFile(r.value)]
    /\ UNCHANGED << console, callVars, gfVars >>

NextFS ==
    \/ \E c \in QualifyingCalls(Len(jobs) + 1) : Dispatch(c.task, c.tasks)
    \/ \E i \in 1..Len(jobs) : CreateResolves(i)
    \/ \E i \in 1..Len(jobs) : CreateRejects(i)
    \/ \E i \in 1..Len(jobs) : Process(i)

SpecFS == InitFS /\ [][NextFS]_vars

\* The line that job i is to archive.
ArchivedLine(i) == jobs[i].fileContentUpdater.text

\* line is a line of the file at filePath.
IsLineOfFile(line, filePath) ==
    /\ vault[filePath].kind = "TFile"
    /\ \E n \in 1..Len(split(vault[filePath].data)) :
           split(vault[filePath].data)[n] = line

\* The jobs whose target file could be neither located nor created.
FailedJobs(filePath) ==
    { i \in 1..Len(jobs) :
        jobs[i].filePath = filePath /\ jobs[i].stage \in {"logged", "rejected"} }

\* C12: the completed instance is absent from the list returned by every
\* write-triggering call, whatever becomes of the write; and for every call
\* whose target file could be neither located nor created, the line is not
\* in the target file and the failure was written to the console log (one
\* message per failed call).
C12_FailedWriteIsLogged ==
    /\ \A i \in 1..Len(jobs) :
           \A n \in 1..Len(jobs[i].returned) :
               jobs[i].returned[n].ref # jobs[i].changedStatusTask.ref
    /\ \A filePath \in DOMAIN vault :
           /\ \A i \in FailedJobs(filePath) : ~IsLineOfFile(ArchivedLine(i), filePath)
           /\ Cardinality(FailedJobs(filePath)) = Occurrences(console, filePath)

\* C17: when two jobs targeted the same file and the transform of each has
\* been applied, the file holds the archived lines of both.
C17_BothLinesArchived ==
    \A i, j \in 1..Len(jobs) :
        ( /\ i < j
          /\ jobs[i].filePath = jobs[j].filePath
          /\ jobs[i].stage = "done" /\ jobs[j].stage = "done" )
        => /\ IsLineOfFile(ArchivedLine(i), jobs[i].filePath)
           /\ IsLineOfFile(ArchivedLine(j), jobs[j].filePath)

====
